---- MODULE Spec2Model ----
(***************************************************************************)
(* Model of the finding-triage engine of llm_scan: AIEngine                *)
(* (engine/ai_engine.py) and the providers it calls                        *)
(* (engine/ai_providers.py).                                               *)
(*                                                                         *)
(* One behaviour is one AIEngine: Init is the engine after __init__        *)
(* together with the argument of one filter_false_positives call; the      *)
(* actions follow that call: its entry, one action per iteration of the    *)
(* per-finding loop (cache hit, or provider call), and the epilogue.       *)
(*                                                                         *)
(* Conventions.  Findings are Python objects: a finding is named by its    *)
(* position in the input list, and lists of findings are sequences of      *)
(* positions.  Floats are counted in hundredths (0.7 is 70).  A JSON /     *)
(* Python value is a record [t, s, n] (type tag, string part, number       *)
(* part) so that values of different Python types can live in one field.   *)
(***************************************************************************)
EXTENDS Integers, Sequences, FiniteSets, TLC

\* Longest input list of one filter_false_positives call.
MaxFindings == 2

-----------------------------------------------------------------------------
(* Python / JSON values *)

JNone == [t |-> "none", s |-> "", n |-> 0]
JMissing == [t |-> "missing", s |-> "", n |-> 0]
JBool(b) == [t |-> "bool", s |-> IF b THEN "true" ELSE "false", n |-> IF b THEN 1 ELSE 0]
JNum(k) == [t |-> "num", s |-> "", n |-> k]
JStr(x) == [t |-> "str", s |-> x, n |-> 0]
JList(x) == [t |-> "list", s |-> x, n |-> 0]

\* bool(v) of Python: the truth value the `if v:` and `a and b` tests use.
Truthy(v) ==
    CASE v.t = "bool" -> v.n = 1
      [] v.t = "num" -> v.n # 0
      [] v.t = "str" -> v.s # ""
      [] v.t = "list" -> v.s # ""
      [] OTHER -> FALSE

\* dict.get(key, default): the default only when the key is absent; a key
\* present with null gives None.
DictGet(d, key, default) == IF d[key].t = "missing" THEN default ELSE d[key]

\* float(v): a number or a bool converts, a numeric string converts, any
\* other value raises ValueError or TypeError.
NumericStrings == {"0.9"}
FloatOk(v) == v.t \in {"num", "bool"} \/ (v.t = "str" /\ v.s \in NumericStrings)
FloatOf(v) == IF v.t = "str" THEN 90 ELSE IF v.t = "bool" THEN 100 * v.n ELSE v.n

-----------------------------------------------------------------------------
(* models.py *)

\* Severity enum values.
SeverityValues == {"critical", "high", "medium", "low", "info"}

\* AIVerdict(...)
AIVerdict(fp, conf, reasoning, enh, sev) ==
    [is_false_positive |-> fp, confidence |-> conf, reasoning |-> reasoning,
     enhanced_remediation |-> enh, suggested_severity |-> sev]

\* Finding.ai_analysis = None
NoVerdict == AIVerdict(JNone, 0, JNone, JNone, "unset")

\* Finding(...) as the scanner builds it: no verdict, not filtered,
\* source "semgrep".
Finding(rule, sev, file, line, tier, recommended) ==
    [rule_id |-> rule, severity |-> sev, file_path |-> file, start_line |-> line,
     snippet |-> "query(user_input)",
     metadata |-> [confidence |-> tier, ai_analysis_recommended |-> recommended],
     remediation |-> JStr("rule guidance"), source |-> "semgrep",
     has_analysis |-> FALSE, ai_analysis |-> NoVerdict, ai_filtered |-> FALSE]

\* The findings a scan may hand to the engine.
FindingPool ==
    { Finding("r1", "low", "a.py", 1, JStr("medium"), JMissing),
      \* same rule, snippet and line as the first, in another file
      Finding("r1", "critical", "b.py", 1, JMissing, JMissing),
      \* a high-confidence finding of the same rule
      Finding("r1", "critical", "a.py", 7, JStr("high"), JMissing),
      Finding("r2", "low", "a.py", 1, JStr("low"), JBool(FALSE)),
      \* high confidence, recommended for AI analysis by its rule
      Finding("r2", "critical", "b.py", 3, JStr("high"), JBool(TRUE)) }

FindingLists == UNION { [1..n -> FindingPool] : n \in 0..MaxFindings }

-----------------------------------------------------------------------------
(* config.py: the values of ScanConfig the engine reads *)

\* ai_confidence_threshold values of the runs (0.5 and the default 0.7).
Thresholds == {50, 70}

\* ai_max_findings: unset (None), or a cap.
NoCap == [set |-> FALSE, n |-> 0]
Cap(k) == [set |-> TRUE, n |-> k]
Caps == {NoCap, Cap(1)}

\* ai_analyze_rules: None is the empty list here (the engine only tests its
\* truth value and membership).
AnalyzeRules == {<<>>, <<"r1">>}

\* ai_provider and ai_model pairs; "local" is documented but has no provider.
ProviderNames == {"openai", "anthropic", "local"}
ModelNames == {"gpt-4", "gpt-4o", "claude-3-opus-20240229"}

\* What the constructor of a provider meets in the environment.
Environments == {"ok", "no_library", "bad_credentials"}

ScanConfig(enable, prov, model, thr, batch, cacheOn, rules, cap) ==
    [enable_ai_filter |-> enable, ai_provider |-> prov, ai_model |-> model,
     ai_confidence_threshold |-> thr, ai_batch_size |-> batch,
     ai_cache_enabled |-> cacheOn, ai_analyze_rules |-> rules,
     ai_max_findings |-> cap]

\* The defaults of the dataclass.
DefaultConfig(enable, prov, model) ==
    ScanConfig(enable, prov, model, 70, 10, TRUE, <<>>, NoCap)

\* Configurations of the runs: every combination of the tunables for the
\* two vendors, and the defaults for engines that end without a provider.
Configs ==
    { ScanConfig(TRUE, pm[1], pm[2], thr, 10, c, r, m) :
        pm \in {<<"openai", "gpt-4">>, <<"openai", "gpt-4o">>,
                <<"anthropic", "claude-3-opus-20240229">>},
        thr \in Thresholds, c \in BOOLEAN, r \in AnalyzeRules, m \in Caps }
    \cup { DefaultConfig(e, p, "gpt-4") : e \in BOOLEAN, p \in ProviderNames }

-----------------------------------------------------------------------------
(* ai_providers.py *)

\* OpenAIProvider.JSON_SUPPORTED_MODELS, among ModelNames.
JSON_SUPPORTED_MODELS == {"gpt-4o"}

\* model.startswith("gpt-") and ("turbo" in model or "o" in model), the
\* prefix test of _model_supports_json_format, among ModelNames.
PrefixMatch(model) == model \in {"gpt-4o"}

ModelSupportsJsonFormat(model) ==
    IF model \in JSON_SUPPORTED_MODELS THEN TRUE ELSE PrefixMatch(model)

NoProvider == [kind |-> "None", supports_json_format |-> FALSE]

\* create_provider: the provider, or NoProvider when the constructor
\* raises (ImportError, RuntimeError, ValueError for an unknown name).
CreateProvider(provider_name, model, env) ==
    IF provider_name = "openai" /\ env = "ok"
    THEN [kind |-> "openai", supports_json_format |-> ModelSupportsJsonFormat(model)]
    ELSE IF provider_name = "anthropic" /\ env = "ok"
    THEN [kind |-> "anthropic", supports_json_format |-> FALSE]
    ELSE NoProvider

\* EngineProvider without the enable_ai_filter test.
EngineProviderAlways(cfg, env) == CreateProvider(cfg.ai_provider, cfg.ai_model, env)

\* AIEngine.__init__: self.provider
EngineProvider(cfg, env) ==
    IF cfg.enable_ai_filter
    THEN CreateProvider(cfg.ai_provider, cfg.ai_model, env)
    ELSE NoProvider

\* A response mapping: the keys the engine reads.
Response(fp, conf, reasoning, enh, sev) ==
    [is_false_positive |-> fp, confidence |-> conf, reasoning |-> reasoning,
     enhanced_remediation |-> enh, suggested_severity |-> sev]

EmptyResponse == Response(JMissing, JMissing, JMissing, JMissing, JMissing)

\* The JSON objects a model answers with.
Responses ==
    { Response(JBool(TRUE), JNum(70), JStr("sanitized upstream"),
               JStr("use parameterized queries"), JStr(" HIGH ")),
      Response(JBool(TRUE), JNum(69), JStr("maybe sanitized"),
               JStr("validate the input"), JStr("none")),
      EmptyResponse,
      \* a confidence that is no number
      Response(JBool(TRUE), JStr("very sure"), JStr("x"), JMissing, JMissing),
      \* a remediation given as a list of steps
      Response(JBool(TRUE), JNum(90), JStr("x"), JList("step 1"), JMissing) }

\* The text of a model answer: what json.loads makes of it (an object, a
\* value that is no object, or nothing at any recovery strategy), and
\* whether it contains the words "false positive" in any case.
ObjectText(r) == [shape |-> "object", value |-> r, mentions_fp |-> FALSE, raw |-> "json"]
ArrayText == [shape |-> "array", value |-> EmptyResponse, mentions_fp |-> FALSE, raw |-> "[]"]
ProseText(fp) ==
    [shape |-> "prose", value |-> EmptyResponse, mentions_fp |-> fp,
     raw |-> IF fp THEN "This is a False Positive." ELSE "I cannot tell."]
Texts == { ObjectText(r) : r \in Responses } \cup {ArrayText, ProseText(TRUE), ProseText(FALSE)}

\* What one network request ends in: an error of the client library, or a text.
Errors == {"Request timed out.", "Rate limit reached", "Connection error.",
           "Unknown parameter: 'response_format'."}
NetError(e) == [ok |-> FALSE, err |-> e, text |-> ArrayText]
NetText(x) == [ok |-> TRUE, err |-> "", text |-> x]
NetOutcomes == { NetError(e) : e \in Errors } \cup { NetText(x) : x \in Texts }

\* "response_format" in str(e).lower()
MentionsResponseFormat(e) == e = "Unknown parameter: 'response_format'."

\* _parse_json_with_fallback: the parsed value, or a JSONDecodeError when
\* no strategy finds JSON in the text.
ParseJsonWithFallback(text) ==
    [ok |-> text.shape # "prose", is_dict |-> text.shape = "object", value |-> text.value]

\* How provider.analyze ends: it raises, or returns a value; `ended` keeps
\* what the last request gave ("error", a text with "no_json", or "json").
Raised(reqs, ended) ==
    [raised |-> TRUE, is_dict |-> FALSE, value |-> EmptyResponse,
     requests |-> reqs, ended |-> ended]
Returned(p, reqs, ended) ==
    [raised |-> FALSE, is_dict |-> p.is_dict, value |-> p.value,
     requests |-> reqs, ended |-> ended]

\* OpenAIRetries without the test of self.supports_json_format.
OpenAIRetriesAnyModel(supports_json_format, o1) ==
    ~o1.ok /\ MentionsResponseFormat(o1.err)

\* The test before the retry of OpenAIProvider.analyze.
OpenAIRetries(supports_json_format, o1) ==
    ~o1.ok /\ MentionsResponseFormat(o1.err) /\ supports_json_format

\* OpenAIProvider.analyze: o1 is the outcome of the request, o2 that of the
\* retry without response_format.  A JSONDecodeError of the parser is
\* raised again after a second parse of the same text.
OpenAIAnalyze(supports_json_format, o1, o2) ==
    IF o1.ok
    THEN LET p == ParseJsonWithFallback(o1.text)
         IN  IF p.ok THEN Returned(p, 1, "json") ELSE Raised(1, "no_json")
    ELSE IF OpenAIRetries(supports_json_format, o1)
    THEN IF o2.ok
         THEN LET p == ParseJsonWithFallback(o2.text)
              IN  IF p.ok THEN Returned(p, 2, "json") ELSE Raised(2, "no_json")
         ELSE Raised(2, "error")
    ELSE Raised(1, "error")

\* The mapping AnthropicProvider.analyze returns for a text that is no JSON.
AnthropicFallback(text) ==
    [ok |-> TRUE, is_dict |-> TRUE,
     value |-> Response(JBool(text.mentions_fp), JNum(50), JStr(text.raw), JMissing, JMissing)]

\* AnthropicProvider.analyze
AnthropicAnalyze(o1) ==
    IF o1.ok
    THEN LET p == ParseJsonWithFallback(o1.text)
         IN  IF p.ok THEN Returned(p, 1, "json")
             ELSE Returned(AnthropicFallback(o1.text), 1, "no_json")
    ELSE Raised(1, "error")

\* The outcomes of a second request: there is one only when OpenAI retries.
SecondOutcomes(prov, o1) ==
    IF prov.kind = "openai" /\ OpenAIRetries(prov.supports_json_format, o1)
    THEN NetOutcomes ELSE {o1}

\* provider.analyze(prompt, SYSTEM_PROMPT) of the engine's provider
Analyze(prov, o1, o2) ==
    IF prov.kind = "openai"
    THEN OpenAIAnalyze(prov.supports_json_format, o1, o2)
    ELSE AnthropicAnalyze(o1)

-----------------------------------------------------------------------------
(* ai_engine.py: pure parts *)

VARIABLES
    config,             \* self.config
    provider,           \* self.provider
    cache,              \* self.cache: cache key -> AIVerdict
    given,              \* the argument `findings` as the scanner built it
    findings,           \* the Finding objects of the argument, as they are now
    pc,                 \* where filter_false_positives is
    queue,              \* the findings the loop visits, in its order
    pos,                \* the place in queue of the next iteration
    filtered_findings,  \* the list being built and returned
    calls,              \* the provider.analyze invocations so far
    outcome             \* per finding: how its iteration ended

vars == <<config, provider, cache, given, findings, pc, queue, pos,
          filtered_findings, calls, outcome>>

\* GetCacheKey with the file path hashed in as well.
GetCacheKeyWithPath(f) == <<f.rule_id, f.snippet, f.start_line, f.file_path>>

\* _get_cache_key: rule id and the hash of (rule id, snippet, start line).
GetCacheKey(f) == <<f.rule_id, f.snippet, f.start_line>>

\* finding.rule_id in self.config.ai_analyze_rules
InRules(rule, rules) == \E k \in 1..Len(rules) : rules[k] = rule

\* Included with an allowlist that the rule metadata cannot override.
IncludedAllowlistOnly(f, cfg) ==
    LET ai_recommended == Truthy(DictGet(f.metadata, "ai_analysis_recommended", JBool(FALSE)))
        rule_confidence == DictGet(f.metadata, "confidence", JStr("medium"))
    IN  IF Len(cfg.ai_analyze_rules) > 0
        THEN InRules(f.rule_id, cfg.ai_analyze_rules)
        ELSE ai_recommended \/ rule_confidence \in {JStr("medium"), JStr("low")}

\* The inclusion test of _filter_findings_for_analysis for one finding.
Included(f, cfg) ==
    LET ai_recommended == Truthy(DictGet(f.metadata, "ai_analysis_recommended", JBool(FALSE)))
        rule_confidence == DictGet(f.metadata, "confidence", JStr("medium"))
    IN  IF Len(cfg.ai_analyze_rules) > 0
        THEN InRules(f.rule_id, cfg.ai_analyze_rules) \/ ai_recommended
        ELSE ai_recommended \/ rule_confidence \in {JStr("medium"), JStr("low")}

\* severity_order.get(f.severity, 99)
SeverityRank(sev) ==
    CASE sev = "critical" -> 0
      [] sev = "high" -> 1
      [] sev = "medium" -> 2
      [] sev = "low" -> 3
      [] sev = "info" -> 4
      [] OTHER -> 99
SeverityRanks == <<0, 1, 2, 3, 4, 99>>

RECURSIVE Concat(_)
\* The lists of a list of lists, joined.
Concat(ss) == IF ss = <<>> THEN <<>> ELSE Head(ss) \o Concat(Tail(ss))

\* SortBySeverity with the severity's name as the sort key.
SortBySeverityName(fs, idx) ==
    LET WithName(n) == SelectSeq(idx, LAMBDA i : fs[i].severity = n)
        names == <<"critical", "high", "info", "low", "medium", "unknown">>
    IN  Concat([k \in 1..Len(names) |-> WithName(names[k])])

\* list.sort(key=rank) on a list of positions: stable, ascending.
SortBySeverity(fs, idx) ==
    LET WithRank(r) == SelectSeq(idx, LAMBDA i : SeverityRank(fs[i].severity) = r)
    IN  Concat([k \in 1..Len(SeverityRanks) |-> WithRank(SeverityRanks[k])])

\* filtered[:ai_max_findings] when the cap is set, non-zero and exceeded.
ApplyCap(idx, cap) ==
    IF cap.set /\ cap.n # 0 /\ Len(idx) > cap.n THEN SubSeq(idx, 1, cap.n) ELSE idx

\* _filter_findings_for_analysis: the positions of the selected findings.
FilterFindingsForAnalysis(fs, cfg) ==
    LET all == [i \in 1..Len(fs) |-> i]
        filtered == SelectSeq(all, LAMBDA i : Included(fs[i], cfg))
    IN  ApplyCap(SortBySeverity(fs, filtered), cfg.ai_max_findings)

RECURSIVE FirstSeen(_, _)
\* The keys of findings_by_file in insertion order: each file path once,
\* in the order of its first finding in the selected list.
FirstSeen(fs, idx) ==
    IF idx = <<>> THEN <<>>
    ELSE LET rest == FirstSeen(fs, SubSeq(idx, 1, Len(idx) - 1))
             file == fs[idx[Len(idx)]].file_path
         IN  IF \E k \in 1..Len(rest) : rest[k] = file THEN rest ELSE Append(rest, file)

\* Batches that keeps the first batch of a file only.
BatchesFirstOnly(file_findings, size) ==
    IF file_findings = <<>> THEN <<>>
    ELSE IF Len(file_findings) <= size THEN <<file_findings>>
    ELSE <<SubSeq(file_findings, 1, size)>>

RECURSIVE Batches(_, _)
\* file_findings[i : i + ai_batch_size] for i in range(0, len, ai_batch_size)
Batches(file_findings, size) ==
    IF file_findings = <<>> THEN <<>>
    ELSE IF Len(file_findings) <= size THEN <<file_findings>>
    ELSE <<SubSeq(file_findings, 1, size)>>
         \o Batches(SubSeq(file_findings, size + 1, Len(file_findings)), size)

\* The order in which the loops of filter_false_positives visit the
\* selected findings: file by file, batch by batch.
ProcessingOrder(fs, selected, size) ==
    LET files == FirstSeen(fs, selected)
        OfFile(p) == SelectSeq(selected, LAMBDA i : fs[i].file_path = p)
    IN  Concat([k \in 1..Len(files) |-> Concat(Batches(OfFile(files[k]), size))])

\* str(value).lower().strip() of a suggested_severity value.
LowerStrip(v) ==
    IF v.t # "str" THEN "other"
    ELSE IF v.s = " HIGH " THEN "high"
    ELSE IF v.s = "Info" THEN "info"
    ELSE v.s

\* SuggestedSeverity without the membership test on the Severity values.
SuggestedSeverityUnchecked(response) ==
    LET value == DictGet(response, "suggested_severity", JNone)
    IN  IF Truthy(value) THEN LowerStrip(value) ELSE "unset"

\* The suggested_severity validation of _analyze_finding.
SuggestedSeverity(response) ==
    LET value == DictGet(response, "suggested_severity", JNone)
    IN  IF Truthy(value) /\ LowerStrip(value) \in SeverityValues
        THEN LowerStrip(value) ELSE "unset"

\* BuildVerdict with a default verdict for a provider that raised (the
\* defaults of the .get calls), in place of None.
BuildVerdictDefaultOnError(r) ==
    IF r.raised
    THEN [ok |-> TRUE,
          verdict |-> AIVerdict(JBool(FALSE), 50, JStr("No reasoning provided"),
                                JNone, "unset")]
    ELSE IF ~r.is_dict \/ ~FloatOk(DictGet(r.value, "confidence", JNum(50)))
    THEN [ok |-> FALSE, verdict |-> NoVerdict]
    ELSE [ok |-> TRUE,
          verdict |-> AIVerdict(
              DictGet(r.value, "is_false_positive", JBool(FALSE)),
              FloatOf(DictGet(r.value, "confidence", JNum(50))),
              DictGet(r.value, "reasoning", JStr("No reasoning provided")),
              DictGet(r.value, "enhanced_remediation", JNone),
              SuggestedSeverity(r.value))]

\* The try block of _analyze_finding after the cache miss: the verdict, or
\* None when anything in it raises (the provider, .get on a value that is
\* no dict, float() of the confidence).
BuildVerdict(r) ==
    IF r.raised \/ ~r.is_dict \/ ~FloatOk(DictGet(r.value, "confidence", JNum(50)))
    THEN [ok |-> FALSE, verdict |-> NoVerdict]
    ELSE [ok |-> TRUE,
          verdict |-> AIVerdict(
              DictGet(r.value, "is_false_positive", JBool(FALSE)),
              FloatOf(DictGet(r.value, "confidence", JNum(50))),
              DictGet(r.value, "reasoning", JStr("No reasoning provided")),
              DictGet(r.value, "enhanced_remediation", JNone),
              SuggestedSeverity(r.value))]

\* CacheHit without the lookup: every analysis goes to the provider.
CacheHitNever(cfg, c, key) == FALSE

\* `cache_key in self.cache` behind the ai_cache_enabled test.
CacheHit(cfg, c, key) == cfg.ai_cache_enabled /\ key \in DOMAIN c

\* CacheAfter that stores the verdict whether or not caching is on.
CacheAfterIgnoringSwitch(cfg, c, key, built) ==
    IF built.ok
    THEN [k \in DOMAIN c \cup {key} |-> IF k = key THEN built.verdict ELSE c[k]]
    ELSE c

\* self.cache[cache_key] = verdict when a verdict was built and caching is on.
CacheAfter(cfg, c, key, built) ==
    IF built.ok /\ cfg.ai_cache_enabled
    THEN [k \in DOMAIN c \cup {key} |-> IF k = key THEN built.verdict ELSE c[k]]
    ELSE c

\* ShouldFilter with > for >=.
ShouldFilterStrict(verdict, threshold) ==
    Truthy(verdict.is_false_positive) /\ verdict.confidence > threshold

\* The filter test of filter_false_positives.
ShouldFilter(verdict, threshold) ==
    Truthy(verdict.is_false_positive) /\ verdict.confidence >= threshold

\* verdict.enhanced_remediation.split('\n') raises for a value that is no string.
SplitRaises(verdict) ==
    Truthy(verdict.enhanced_remediation) /\ verdict.enhanced_remediation.t # "str"

\* ApplyVerdict with the remediation taken over only for a finding that is
\* retained (the enhancement placed in the else branch of the filter test).
ApplyVerdictEnhanceRetained(f, verdict, threshold) ==
    LET f1 == [f EXCEPT !.has_analysis = TRUE, !.ai_analysis = verdict]
        f2 == IF Truthy(verdict.enhanced_remediation)
              THEN [f1 EXCEPT !.remediation = verdict.enhanced_remediation,
                              !.source = "ai-enhanced"]
              ELSE f1
    IN  IF SplitRaises(verdict) THEN f2
        ELSE IF ShouldFilter(verdict, threshold)
        THEN [f1 EXCEPT !.ai_filtered = TRUE]
        ELSE f2

\* The finding after the loop body applied a verdict to it: the verdict
\* attached, the remediation taken over, and the filtered flag set unless
\* the body raised at the split, before the filter test.
ApplyVerdict(f, verdict, threshold) ==
    LET f1 == [f EXCEPT !.has_analysis = TRUE, !.ai_analysis = verdict]
        f2 == IF Truthy(verdict.enhanced_remediation)
              THEN [f1 EXCEPT !.remediation = verdict.enhanced_remediation,
                              !.source = "ai-enhanced"]
              ELSE f1
    IN  IF SplitRaises(verdict) THEN f2
        ELSE IF ShouldFilter(verdict, threshold)
        THEN [f2 EXCEPT !.ai_filtered = TRUE]
        ELSE f2

-----------------------------------------------------------------------------
(* ai_engine.py: AIEngine.__init__ and filter_false_positives *)

EmptyCache == [k \in {} |-> NoVerdict]

\* The engine after __init__, about to run filter_false_positives(given).
Init ==
    /\ config \in Configs
    /\ \E env \in Environments : provider = EngineProvider(config, env)
    /\ cache = EmptyCache
    /\ given \in FindingLists
    /\ findings = given
    /\ pc = "called"
    /\ queue = <<>>
    /\ pos = 1
    /\ filtered_findings = <<>>
    /\ calls = <<>>
    /\ outcome = [i \in 1..Len(given) |-> "none"]

\* `return findings`: the argument itself.
AllPositions == [i \in 1..Len(findings) |-> i]

\* if not self.provider: return findings
ReturnWithoutProvider ==
    /\ pc = "called"
    /\ provider.kind = "None"
    /\ pc' = "returned"
    /\ filtered_findings' = AllPositions
    /\ UNCHANGED <<config, provider, cache, given, findings, queue, pos, calls, outcome>>

\* if not findings / if not findings_to_analyze: return findings
ReturnNothingToAnalyze ==
    /\ pc = "called"
    /\ provider.kind # "None"
    /\ FilterFindingsForAnalysis(findings, config) = <<>>
    /\ pc' = "returned"
    /\ filtered_findings' = AllPositions
    /\ UNCHANGED <<config, provider, cache, given, findings, queue, pos, calls, outcome>>

\* Selection and grouping by file, up to the first loop iteration.
StartAnalysis ==
    /\ pc = "called"
    /\ provider.kind # "None"
    /\ FilterFindingsForAnalysis(findings, config) # <<>>
    /\ pc' = "loop"
    /\ queue' = ProcessingOrder(findings, FilterFindingsForAnalysis(findings, config),
                                config.ai_batch_size)
    /\ pos' = 1
    /\ filtered_findings' = <<>>
    /\ UNCHANGED <<config, provider, cache, given, findings, calls, outcome>>

\* The body of `for finding in batch` once _analyze_finding has returned
\* `built` for finding i; `how` names the path taken.
LoopBody(i, built, how) ==
    IF built.ok
    THEN /\ findings' = [findings EXCEPT
                            ![i] = ApplyVerdict(@, built.verdict,
                                                config.ai_confidence_threshold)]
         /\ IF SplitRaises(built.verdict)
            THEN /\ pc' = "raised"
                 /\ outcome' = [outcome EXCEPT ![i] = "raised"]
                 /\ UNCHANGED <<filtered_findings, pos>>
            ELSE /\ pc' = pc
                 /\ outcome' = [outcome EXCEPT ![i] = how]
                 /\ pos' = pos + 1
                 /\ filtered_findings' =
                        IF ShouldFilter(built.verdict, config.ai_confidence_threshold)
                        THEN filtered_findings
                        ELSE Append(filtered_findings, i)
    ELSE /\ findings' = findings
         /\ pc' = pc
         /\ outcome' = [outcome EXCEPT ![i] = "failed"]
         /\ pos' = pos + 1
         /\ filtered_findings' = Append(filtered_findings, i)

\* One iteration whose _analyze_finding returns the cached verdict.
UseCachedVerdict ==
    /\ pc = "loop"
    /\ pos <= Len(queue)
    /\ LET i == queue[pos]
           key == GetCacheKey(findings[i])
       IN  /\ CacheHit(config, cache, key)
           /\ LoopBody(i, [ok |-> TRUE, verdict |-> cache[key]], "cached")
    /\ UNCHANGED <<config, provider, cache, given, queue, calls>>

\* One iteration whose _analyze_finding calls the provider.
CallProvider ==
    /\ pc = "loop"
    /\ pos <= Len(queue)
    /\ LET i == queue[pos]
           key == GetCacheKey(findings[i])
       IN  /\ ~CacheHit(config, cache, key)
           /\ \E o1 \in NetOutcomes :
              \E o2 \in SecondOutcomes(provider, o1) :
                LET r == Analyze(provider, o1, o2)
                    built == BuildVerdict(r)
                IN  /\ calls' = Append(calls, [finding |-> i, key |-> key,
                                               ended |-> r.ended,
                                               ok |-> built.ok])
                    /\ cache' = CacheAfter(config, cache, key, built)
                    /\ LoopBody(i, built, "analyzed")
    /\ UNCHANGED <<config, provider, given, queue>>

\* analyzed_rule_ids = {f.rule_id for f in findings_to_analyze}
AnalyzedRuleIds(fs, cfg) ==
    LET sel == FilterFindingsForAnalysis(fs, cfg)
    IN  { fs[sel[k]].rule_id : k \in 1..Len(sel) }

\* "Add findings that weren't analyzed": the findings whose rule id no
\* selected finding has, in input order.
NotAnalyzed(fs, cfg) ==
    SelectSeq([i \in 1..Len(fs) |-> i],
              LAMBDA i : fs[i].rule_id \notin AnalyzedRuleIds(fs, cfg))

\* After the loops: add the findings that were not analyzed, and return.
Finish ==
    /\ pc = "loop"
    /\ pos > Len(queue)
    /\ filtered_findings' = filtered_findings \o NotAnalyzed(findings, config)
    /\ pc' = "returned"
    /\ UNCHANGED <<config, provider, cache, given, findings, queue, pos, calls, outcome>>

Next ==
    \/ ReturnWithoutProvider
    \/ ReturnNothingToAnalyze
    \/ StartAnalysis
    \/ UseCachedVerdict
    \/ CallProvider
    \/ Finish

Spec == Init /\ [][Next]_vars

-----------------------------------------------------------------------------
(* Vocabulary of the properties *)

\* The positions a list of positions holds.
Range(seq) == { seq[k] : k \in 1..Len(seq) }

\* How often position i occurs in a list of positions.
Occurrences(seq, i) == Cardinality({ k \in 1..Len(seq) : seq[k] = i })

\* The positions the Candidate Selector selected from the input.
SelectedSet == Range(FilterFindingsForAnalysis(given, config))

\* Finding i is as the scanner built it: no field changed.
Unmodified(i) == findings[i] = given[i]

\* Finding i went through the whole loop body with a verdict.
VerdictApplied(i) == outcome[i] \in {"cached", "analyzed"}

\* The place of finding i in the loop's order (0 when it is not visited).
PlaceOf(i) == IF i \in Range(queue) THEN CHOOSE k \in 1..Len(queue) : queue[k] = i ELSE 0

\* The analyze invocation just made by this step, if any.
NewCall == calls' # calls
LastCall == calls'[Len(calls')]

-----------------------------------------------------------------------------
(* C1 *)

-----------------------------------------------------------------------------
(* C2 *)

\* C2: once filter_false_positives has returned, every input finding the
\* Candidate Selector did not select is in the returned list, with no field
\* changed.
C2_UnselectedRetained ==
    pc = "returned" =>
        \A i \in 1..Len(findings) :
            i \notin SelectedSet => (i \in Range(filtered_findings) /\ Unmodified(i))

-----------------------------------------------------------------------------
(* C3 *)

\* C3: a step whose analyze invocation ended in a provider error, or in a
\* text no recovery strategy parses, leaves the cache as it was.
C3_FailedAnalysisNotCached ==
    [][(NewCall /\ LastCall.ended \in {"error", "no_json"}) => cache' = cache]_vars

-----------------------------------------------------------------------------
(* C4 *)

\* C4: with caching enabled, a step invokes the provider only when the key
\* of the finding it analyses is absent from the cache before the step, and
\* a step for a finding whose key is in the cache invokes no provider and
\* gives the finding the cached verdict.
C4_CacheReadBeforeProvider ==
    [][config.ai_cache_enabled =>
        /\ NewCall => LastCall.key \notin DOMAIN cache
        /\ (pc = "loop" /\ pos <= Len(queue) /\ outcome' # outcome
            /\ GetCacheKey(findings[queue[pos]]) \in DOMAIN cache) =>
               /\ ~NewCall
               /\ findings'[queue[pos]].has_analysis
               /\ findings'[queue[pos]].ai_analysis
                    = cache[GetCacheKey(findings[queue[pos]])]]_vars

\* A finding got its verdict from the cache, after exactly one invocation
\* for its key.
C4_Witness ==
    \E i \in 1..Len(findings) :
        /\ outcome[i] = "cached"
        /\ config.ai_cache_enabled
        /\ Cardinality({ k \in 1..Len(calls) : calls[k].key = GetCacheKey(findings[i]) }) = 1

-----------------------------------------------------------------------------
(* C5 *)

\* Findings i and j have the same rule id, snippet and start line.
SameContent(i, j) ==
    /\ findings[i].rule_id = findings[j].rule_id
    /\ findings[i].snippet = findings[j].snippet
    /\ findings[i].start_line = findings[j].start_line

\* C5: with caching enabled, when two findings with the same rule id,
\* snippet and start line have both been analysed and the analysis of the
\* first one yielded a verdict, the provider was invoked exactly once for
\* the two and both carry that verdict, whatever their file paths.
C5_SameContentOneInvocation ==
    \A i, j \in 1..Len(findings) :
        (/\ config.ai_cache_enabled
         /\ SameContent(i, j)
         /\ 0 < PlaceOf(i) /\ PlaceOf(i) < PlaceOf(j)
         /\ outcome[i] = "analyzed"
         /\ outcome[j] # "none") =>
            /\ GetCacheKey(findings[i]) = GetCacheKey(findings[j])
            /\ Cardinality({ k \in 1..Len(calls) : calls[k].finding \in {i, j} }) = 1
            /\ findings[j].has_analysis
            /\ findings[j].ai_analysis = findings[i].ai_analysis

\* Two findings of the same content in different files, both analysed, the
\* second from the cache.
C5_Witness ==
    \E i, j \in 1..Len(findings) :
        /\ config.ai_cache_enabled
        /\ SameContent(i, j)
        /\ findings[i].file_path # findings[j].file_path
        /\ outcome[i] = "analyzed"
        /\ outcome[j] = "cached"
        /\ Len(calls) = 1

-----------------------------------------------------------------------------
(* C6 *)

\* C6: a finding whose provider call failed (the request, or its retry,
\* ended in an error) has no verdict and no changed field, is in the list
\* being returned exactly once, and the loop has moved past it; when the
\* call returns, every selected finding of the loop has been visited.
C6_ProviderErrorKeepsFinding ==
    \A k \in 1..Len(calls) :
        calls[k].ended = "error" =>
            LET i == calls[k].finding
            IN  /\ ~findings[i].has_analysis
                /\ Unmodified(i)
                /\ outcome[i] = "failed"
                /\ Occurrences(filtered_findings, i) = 1
                /\ pos > PlaceOf(i)
                /\ pc = "returned" => \A q \in 1..Len(queue) : outcome[queue[q]] # "none"

\* A returned run whose first provider call failed and whose next finding
\* was then analysed by a second call.
C6_Witness ==
    /\ pc = "returned"
    /\ Len(calls) >= 2
    /\ calls[1].ended = "error"
    /\ outcome[calls[2].finding] = "analyzed"
    /\ calls[1].finding \in Range(filtered_findings)

-----------------------------------------------------------------------------
(* C7 *)

\* C7: a finding for which the model's text defeated every recovery
\* strategy has no verdict, no changed field and no filtered flag, and is
\* in the returned list.
C7_UnparsableResponseKeepsFinding ==
    \A k \in 1..Len(calls) :
        calls[k].ended = "no_json" =>
            LET i == calls[k].finding
            IN  /\ ~findings[i].has_analysis
                /\ Unmodified(i)
                /\ ~findings[i].ai_filtered
                /\ pc = "returned" => i \in Range(filtered_findings)

-----------------------------------------------------------------------------
(* C8 *)

\* The configuration gives the engine no provider: AI filtering is off, or
\* the provider name is unknown; or the engine ended without one because
\* the constructor of the provider failed.
WithoutProvider ==
    \/ ~config.enable_ai_filter
    \/ config.ai_provider \notin {"openai", "anthropic"}
    \/ provider.kind = "None"

\* C8: an engine without a provider makes no provider call and changes no
\* finding, and filter_false_positives returns the input list as it is.
C8_NoProviderReturnsInput ==
    WithoutProvider =>
        /\ calls = <<>>
        /\ findings = given
        /\ pc \in {"called", "returned"}
        /\ pc = "returned" => filtered_findings = [i \in 1..Len(given) |-> i]

\* filter_false_positives returned from an engine whose provider failed to
\* construct, with an input holding a finding the selector would select.
C8_Witness ==
    /\ pc = "returned"
    /\ config.enable_ai_filter
    /\ config.ai_provider \in {"openai", "anthropic"}
    /\ provider.kind = "None"
    /\ Len(given) = MaxFindings
    /\ SelectedSet # {}

-----------------------------------------------------------------------------
(* C9 *)

\* C9: when every provider call of a returned run failed, the returned
\* list is the input list, in input order, with no field changed.
C9_TotalFailureIsDisabled ==
    (pc = "returned" /\ \A k \in 1..Len(calls) : calls[k].ended = "error") =>
        /\ filtered_findings = [i \in 1..Len(given) |-> i]
        /\ findings = given

-----------------------------------------------------------------------------
(* C10 *)

\* C10: filter_false_positives never ends by raising, whatever mapping the
\* provider returned.
C10_NeverRaises == pc # "raised"

-----------------------------------------------------------------------------
(* C11 *)

\* C11: every finding to which a verdict was applied, fresh or from the
\* cache, whose verdict carries a non-empty enhanced remediation string has
\* that string as its remediation and "ai-enhanced" as its source, whether
\* the finding was then filtered or retained.
C11_EnhancedRemediationApplied ==
    \A i \in 1..Len(findings) :
        LET v == findings[i].ai_analysis
        IN  (/\ VerdictApplied(i)
             /\ v.enhanced_remediation.t = "str"
             /\ v.enhanced_remediation.s # "") =>
                /\ findings[i].remediation = v.enhanced_remediation
                /\ findings[i].remediation # given[i].remediation
                /\ findings[i].source = "ai-enhanced"

\* A returned run with an enhanced finding that was filtered and an
\* enhanced finding that was retained.
C11_Witness ==
    /\ pc = "returned"
    /\ \E i, j \in 1..Len(findings) :
        /\ VerdictApplied(i) /\ VerdictApplied(j)
        /\ findings[i].ai_filtered
        /\ i \notin Range(filtered_findings)
        /\ findings[i].source = "ai-enhanced"
        /\ findings[i].remediation = JStr("use parameterized queries")
        /\ ~findings[j].ai_filtered
        /\ j \in Range(filtered_findings)
        /\ findings[j].source = "ai-enhanced"
        /\ findings[j].remediation = JStr("validate the input")

-----------------------------------------------------------------------------
(* ai_engine.py: _filter_findings_for_analysis on its own *)

(***************************************************************************)
(* SelectorSpec is one call of _filter_findings_for_analysis(given) on an  *)
(* engine with a warm cache: `queue` receives the list it returns.         *)
(***************************************************************************)

\* Severities of the findings: the enum's values, and a value outside the
\* enum (the dataclass does not validate the field).
SelectorSeverities == SeverityValues \cup {"unknown"}

\* Findings that differ in what the inclusion test reads: rule id,
\* confidence tier (absent or given) and the recommendation (absent or given).
MetadataPool ==
    { Finding(rule, "high", "a.py", 1, tier, rec) :
        rule \in {"r1", "r2"},
        tier \in {JMissing, JStr("high"), JStr("medium"), JStr("low")},
        rec \in {JMissing, JBool(TRUE), JBool(FALSE)} }

\* Findings that differ in severity, all included by their tier, and one
\* that neither the tier test nor the allowlist <<"r1">> includes.
SeverityPool ==
    { Finding("r1", sev, "a.py", 1, JStr("medium"), JMissing) : sev \in SelectorSeverities }
    \cup { Finding("r2", "critical", "a.py", 1, JStr("high"), JMissing) }

\* The arguments of the call: short lists over MetadataPool, longer ones
\* over SeverityPool.
SelectorInputs ==
    UNION { [1..n -> MetadataPool] : n \in 0..MaxFindings }
    \cup UNION { [1..n -> SeverityPool] : n \in 0..(MaxFindings + 2) }

\* --ai-max-findings: absent, or an integer (type=int accepts 0).
SelectorCaps == {NoCap, Cap(0), Cap(1), Cap(2)}

SelectorConfigs ==
    { ScanConfig(TRUE, "openai", "gpt-4", 70, 10, TRUE, r, m) :
        r \in AnalyzeRules, m \in SelectorCaps }

\* A cache that holds the verdict of an earlier analysis.
WarmCache ==
    [k \in {<<"r1", "query(user_input)", 1>>} |->
        AIVerdict(JBool(FALSE), 90, JStr("reachable"), JNone, "unset")]

\* FindingsAfterSelection with the sort applied to the argument itself.
FindingsSortedInPlace(fs, cfg) ==
    LET order == SortBySeverity(fs, [i \in 1..Len(fs) |-> i])
    IN  [k \in 1..Len(fs) |-> fs[order[k]]]

\* The argument list after the call: the selector appends to, sorts and
\* slices its own list `filtered`, and only reads the findings.
FindingsAfterSelection(fs, cfg) == fs

SelectorInit ==
    /\ config \in SelectorConfigs
    /\ provider = CreateProvider(config.ai_provider, config.ai_model, "ok")
    /\ cache = WarmCache
    /\ given \in SelectorInputs
    /\ findings = given
    /\ pc = "called"
    /\ queue = <<>>
    /\ pos = 1
    /\ filtered_findings = <<>>
    /\ calls = <<>>
    /\ outcome = [i \in 1..Len(given) |-> "none"]

\* findings_to_analyze = self._filter_findings_for_analysis(findings)
SelectCandidates ==
    /\ pc = "called"
    /\ pc' = "selected"
    /\ queue' = FilterFindingsForAnalysis(findings, config)
    /\ findings' = FindingsAfterSelection(findings, config)
    /\ UNCHANGED <<config, provider, cache, given, pos, filtered_findings, calls, outcome>>

SelectorNext == SelectCandidates

SelectorSpec == SelectorInit /\ [][SelectorNext]_vars

-----------------------------------------------------------------------------
(* C12 *)

-----------------------------------------------------------------------------
(* C13 *)

\* C13: with a cap c configured, the selector returns the first min(c, n)
\* findings of the severity-sorted list of the n included findings, and so
\* never more than c.
C13_CapKeepsPrefix ==
    (pc = "selected" /\ config.ai_max_findings.set) =>
        LET all == [i \in 1..Len(given) |-> i]
            sorted == SortBySeverity(given,
                          SelectSeq(all, LAMBDA i : Included(given[i], config)))
            c == config.ai_max_findings.n
            m == IF c < Len(sorted) THEN c ELSE Len(sorted)
        IN  /\ queue = SubSeq(sorted, 1, m)
            /\ Len(queue) <= c

-----------------------------------------------------------------------------
(* C14 *)

\* C14: of two findings in the returned list, the earlier one has the lower
\* severity rank (critical 0, high 1, medium 2, low 3, info 4, any other
\* value 99), or the same rank and the earlier place in the input.
C14_SortedBySeverityStable ==
    pc = "selected" =>
        LET Rank(i) ==
                CASE given[i].severity = "critical" -> 0
                  [] given[i].severity = "high" -> 1
                  [] given[i].severity = "medium" -> 2
                  [] given[i].severity = "low" -> 3
                  [] given[i].severity = "info" -> 4
                  [] OTHER -> 99
        IN  \A k, l \in 1..Len(queue) :
                k < l => \/ Rank(queue[k]) < Rank(queue[l])
                         \/ (Rank(queue[k]) = Rank(queue[l]) /\ queue[k] < queue[l])

\* The input severities [low, critical, low, medium] came back as the
\* second, the fourth, the first and the third finding.
C14_Witness ==
    /\ pc = "selected"
    /\ [i \in 1..Len(given) |-> given[i].severity] = <<"low", "critical", "low", "medium">>
    /\ queue = <<2, 4, 1, 3>>

-----------------------------------------------------------------------------
(* C15 *)

\* C15: the call of the selector leaves the argument list (its elements,
\* their order, every field of every finding) and the cache as they were.
C15_SelectionHasNoSideEffect ==
    [][(pc = "called" /\ pc' = "selected") =>
          /\ findings' = findings
          /\ findings' = given
          /\ given' = given
          /\ cache' = cache]_vars

\* A call that returned fewer findings than it was given, in another order
\* than the input's, on an engine whose cache is not empty.
C15_Witness ==
    /\ pc = "selected"
    /\ Len(queue) >= 2
    /\ Len(queue) < Len(given)
    /\ queue[1] > queue[2]
    /\ DOMAIN cache # {}
    /\ findings = given

-----------------------------------------------------------------------------
(* ai_providers.py: the requests of provider.analyze *)

(***************************************************************************)
(* ProviderSpec is one provider object serving analyze invocations, one    *)
(* after the other; a step is the code of analyze up to the return of one  *)
(* blocking request.  `pos` counts the invocations, `calls` is the log of  *)
(* the network requests, `outcome` lists how the finished invocations      *)
(* ended.                                                                  *)
(***************************************************************************)

\* The engines whose provider was constructed.
ProviderConfigs ==
    { DefaultConfig(TRUE, pm[1], pm[2]) :
        pm \in {<<"openai", "gpt-4">>, <<"openai", "gpt-4o">>,
                <<"anthropic", "claude-3-opus-20240229">>} }

\* request_params carries "response_format" (OpenAI, JSON-mode model only).
SendsResponseFormat(prov) == prov.kind = "openai" /\ prov.supports_json_format

\* One network request as the log keeps it.
Request(n, response_format, o) ==
    [invocation |-> n, response_format |-> response_format, result |-> o]

ProviderInit ==
    /\ config \in ProviderConfigs
    /\ provider = EngineProvider(config, "ok")
    /\ cache = EmptyCache
    /\ given = <<>>
    /\ findings = <<>>
    /\ pc = "idle"
    /\ queue = <<>>
    /\ pos = 0
    /\ filtered_findings = <<>>
    /\ calls = <<>>
    /\ outcome = <<>>

\* analyze up to the end of its first request: it returns or raises, or,
\* for OpenAI, goes on to the retry.
AnalyzeRequest ==
    /\ pc = "idle"
    /\ pos < MaxFindings
    /\ pos' = pos + 1
    /\ \E o \in NetOutcomes :
        /\ calls' = Append(calls, Request(pos + 1, SendsResponseFormat(provider), o))
        /\ IF provider.kind = "openai" /\ OpenAIRetries(provider.supports_json_format, o)
           THEN pc' = "retry" /\ outcome' = outcome
           ELSE pc' = "idle" /\ outcome' = Append(outcome, Analyze(provider, o, o))
    /\ UNCHANGED <<config, provider, cache, given, findings, queue, filtered_findings>>

\* The retry of OpenAIProvider.analyze, without response_format.
AnalyzeRetry ==
    /\ pc = "retry"
    /\ \E o2 \in NetOutcomes :
        /\ calls' = Append(calls, Request(pos, FALSE, o2))
        /\ outcome' = Append(outcome, Analyze(provider, calls[Len(calls)].result, o2))
    /\ pc' = "idle"
    /\ UNCHANGED <<config, provider, cache, given, findings, queue, pos, filtered_findings>>

ProviderNext == AnalyzeRequest \/ AnalyzeRetry

ProviderSpec == ProviderInit /\ [][ProviderNext]_vars

\* The requests of invocation n, in the order they were issued.
RequestsOf(n) == SelectSeq(calls, LAMBDA c : c.invocation = n)

-----------------------------------------------------------------------------
(* C16 *)

\* C16: every finished analyze invocation issued one request, or two when
\* the provider is the OpenAI one with a model treated as JSON-mode capable
\* and the first request failed with an error that mentions
\* response_format; the second request carries no response_format; an
\* invocation whose last request failed raised to its caller; and an
\* invocation waiting for its retry has issued one request.
C16_OneRequestOrOneRetry ==
    /\ \A n \in 1..Len(outcome) :
        LET reqs == RequestsOf(n)
            retried == /\ provider.kind = "openai"
                       /\ provider.supports_json_format
                       /\ ~reqs[1].result.ok
                       /\ reqs[1].result.err = "Unknown parameter: 'response_format'."
        IN  /\ Len(reqs) = IF retried THEN 2 ELSE 1
            /\ retried => (reqs[1].response_format /\ ~reqs[2].response_format)
            /\ ~reqs[Len(reqs)].result.ok => outcome[n].raised
            /\ outcome[n].requests = Len(reqs)
    /\ \A n \in (Len(outcome) + 1)..pos : Len(RequestsOf(n)) = 1
    /\ Len(calls) <= 2 * pos

\* An invocation that retried and raised the error of the retry, followed
\* by an invocation that issued one request and returned.
C16_Witness ==
    /\ Len(outcome) = 2
    /\ Len(RequestsOf(1)) = 2
    /\ ~RequestsOf(1)[2].result.ok
    /\ outcome[1].raised
    /\ Len(RequestsOf(2)) = 1
    /\ ~outcome[2].raised

-----------------------------------------------------------------------------
(* ai_providers.py: _parse_json_with_fallback, strategy by strategy *)

(***************************************************************************)
(* ParserSpec is one call _parse_json_with_fallback(given).  A text is a   *)
(* sequence of tokens; `calls` receives the json.loads attempts of the     *)
(* call in the order they were made, `outcome` what the call returned or   *)
(* raised.  ParseJsonWithFallback above is the summary of this parser the  *)
(* engine uses (a text of shape "prose" is one on which ParseContent       *)
(* raises).                                                                *)
(***************************************************************************)

\* Longest text, in tokens.
MaxContent == 5

\* The pieces of a model answer: braces; "e", the members of an object with
\* an invalid escape in a string ("p": "C:\New"); "[]", a JSON value that is
\* no object; FENCE_JSON, the three backticks and the word json that open
\* a block; FENCE, three backticks; "x", a word of prose; "w", white
\* space.  "f" is "e" with its backslash doubled.
Tokens == {"{", "}", "e", "[]", "FENCE_JSON", "FENCE", "x", "w"}

Contents == UNION { [1..n -> Tokens] : n \in 0..MaxContent }

\* _fix_json_escapes: every invalid escape gets its backslash doubled.
FixJsonEscapes(content) ==
    [k \in 1..Len(content) |-> IF content[k] = "e" THEN "f" ELSE content[k]]

\* json.loads: white space around the tokens is skipped; the documents are
\* the empty object, an object whose escapes are valid, and the array.
JsonLoads(text) ==
    LET t == SelectSeq(text, LAMBDA c : c # "w")
        ok == t \in {<<"{", "}">>, <<"{", "f", "}">>, <<"[]">>}
    IN  [ok |-> ok, value |-> IF ok THEN t ELSE <<>>]

\* str.strip()
Strip(text) ==
    LET inked == { k \in 1..Len(text) : text[k] # "w" }
    IN  IF inked = {} THEN <<>>
        ELSE SubSeq(text, CHOOSE k \in inked : \A j \in inked : k <= j,
                          CHOOSE k \in inked : \A j \in inked : k >= j)

\* content.find(sub, start): the first place at or after start where one
\* of the tokens that begin with sub stands, 0 for Python's -1.
FindFrom(content, starters, start) ==
    LET at == { k \in start..Len(content) : content[k] \in starters }
    IN  IF at = {} THEN 0 ELSE CHOOSE k \in at : \A j \in at : k <= j

\* content.rfind(sub)
FindLast(content, starters) ==
    LET at == { k \in 1..Len(content) : content[k] \in starters }
    IN  IF at = {} THEN 0 ELSE CHOOSE k \in at : \A j \in at : k >= j

\* Strategy 3: the text between the opening fence and the next three
\* backticks (an opening fence begins with them too), stripped; found only
\* when json_end > json_start.
FenceExtract(content) ==
    LET open == FindFrom(content, {"FENCE_JSON"}, 1)
        json_start == open + 1
        json_end == FindFrom(content, {"FENCE", "FENCE_JSON"}, json_start)
    IN  IF open > 0 /\ json_end > json_start
        THEN [found |-> TRUE, text |-> Strip(SubSeq(content, json_start, json_end - 1))]
        ELSE [found |-> FALSE, text |-> <<>>]

\* Strategy 4: the text from the first "{" to the last "}".
BraceExtract(content) ==
    LET first_brace == FindFrom(content, {"{"}, 1)
        last_brace == FindLast(content, {"}"})
    IN  IF first_brace > 0 /\ last_brace > first_brace
        THEN [found |-> TRUE, text |-> SubSeq(content, first_brace, last_brace)]
        ELSE [found |-> FALSE, text |-> <<>>]

\* One json.loads attempt of the parser.
Attempt(strategy, text) ==
    [strategy |-> strategy, text |-> text,
     ok |-> JsonLoads(text).ok, value |-> JsonLoads(text).value]

\* Candidates with the brace extraction placed before the fence extraction.
CandidatesBraceFirst(content) ==
    LET fence == FenceExtract(content)
        brace == BraceExtract(content)
    IN  <<Attempt("direct", content), Attempt("repair", FixJsonEscapes(content))>>
        \o (IF brace.found
            THEN <<Attempt("brace", brace.text),
                   Attempt("brace_repair", FixJsonEscapes(brace.text))>>
            ELSE <<>>)
        \o (IF fence.found
            THEN <<Attempt("fence", fence.text),
                   Attempt("fence_repair", FixJsonEscapes(fence.text))>>
            ELSE <<>>)

\* The json.loads calls in the text of _parse_json_with_fallback, in its
\* order, that apply to the content.
Candidates(content) ==
    LET fence == FenceExtract(content)
        brace == BraceExtract(content)
    IN  <<Attempt("direct", content), Attempt("repair", FixJsonEscapes(content))>>
        \o (IF fence.found
            THEN <<Attempt("fence", fence.text),
                   Attempt("fence_repair", FixJsonEscapes(fence.text))>>
            ELSE <<>>)
        \o (IF brace.found
            THEN <<Attempt("brace", brace.text),
                   Attempt("brace_repair", FixJsonEscapes(brace.text))>>
            ELSE <<>>)

\* The attempts the call makes: each try block is entered after the one
\* before it raised JSONDecodeError, and a successful json.loads returns.
ParseAttempts(content) ==
    LET c == Candidates(content)
        good == { k \in 1..Len(c) : c[k].ok }
    IN  IF good = {} THEN c
        ELSE SubSeq(c, 1, CHOOSE k \in good : \A j \in good : k <= j)

\* _parse_json_with_fallback: the value of the successful attempt, or
\* JSONDecodeError(msg, content, 0).
ParseContent(content) ==
    LET a == ParseAttempts(content)
    IN  IF a[Len(a)].ok
        THEN [raised |-> FALSE, value |-> a[Len(a)].value, doc |-> <<>>]
        ELSE [raised |-> TRUE, value |-> <<>>, doc |-> content]

ParserInit ==
    /\ config = DefaultConfig(TRUE, "openai", "gpt-4")
    /\ provider = EngineProvider(config, "ok")
    /\ cache = EmptyCache
    /\ given \in Contents
    /\ findings = <<>>
    /\ pc = "called"
    /\ queue = <<>>
    /\ pos = 1
    /\ filtered_findings = <<>>
    /\ calls = <<>>
    /\ outcome = [raised |-> FALSE, value |-> <<>>, doc |-> <<>>]

\* The call, from its entry to its return or raise.
ParseCall ==
    /\ pc = "called"
    /\ calls' = ParseAttempts(given)
    /\ outcome' = ParseContent(given)
    /\ pc' = IF ParseContent(given).raised THEN "raised" ELSE "returned"
    /\ UNCHANGED <<config, provider, cache, given, findings, queue, pos, filtered_findings>>

ParserNext == ParseCall

ParserSpec == ParserInit /\ [][ParserNext]_vars

-----------------------------------------------------------------------------
(* C17 *)

\* C17: a finished call of the parser made its json.loads attempts in the
\* order direct, repair, fence, fence repaired, brace, brace repaired, each
\* one after all earlier ones failed, starting with the direct parse; it
\* returned exactly when its last attempt succeeded, with that attempt's
\* value; it raised exactly when the direct parse, the repaired text, the
\* fence extraction (if there is one) and the brace extraction (if there is
\* one), plain and repaired, all fail, after trying each of them, and the
\* error carries the original text.
C17_StrategiesInOrder ==
    pc \in {"returned", "raised"} =>
        LET order == <<"direct", "repair", "fence", "fence_repair",
                       "brace", "brace_repair">>
            Place(a) == CHOOSE k \in 1..Len(order) : order[k] = a.strategy
            Fails(text) == ~JsonLoads(text).ok /\ ~JsonLoads(FixJsonEscapes(text)).ok
            fence == FenceExtract(given)
            brace == BraceExtract(given)
            all_fail == /\ Fails(given)
                        /\ fence.found => Fails(fence.text)
                        /\ brace.found => Fails(brace.text)
            last == calls[Len(calls)]
        IN  /\ Len(calls) >= 1
            /\ calls[1].strategy = "direct" /\ calls[1].text = given
            /\ \A k \in 1..(Len(calls) - 1) :
                  ~calls[k].ok /\ Place(calls[k]) < Place(calls[k + 1])
            /\ pc = "returned" <=> last.ok
            /\ pc = "returned" => (~outcome.raised /\ outcome.value = last.value)
            /\ pc = "raised" <=> all_fail
            /\ pc = "raised" =>
                  /\ outcome.raised /\ outcome.doc = given
                  /\ Len(calls) = 2 + (IF fence.found THEN 2 ELSE 0)
                                    + (IF brace.found THEN 2 ELSE 0)

\* A call that returned the object found between the braces after the
\* direct parse, the repair and both attempts on a fenced block had failed.
C17_Witness ==
    /\ pc = "returned"
    /\ Len(calls) = 5
    /\ calls[3].strategy = "fence" /\ calls[4].strategy = "fence_repair"
    /\ calls[5].strategy = "brace"
    /\ outcome.value = <<"{", "}">>

-----------------------------------------------------------------------------
(* ai_engine.py: _analyze_finding on the fields of a response *)

(***************************************************************************)
(* AnalysisSpec is one engine whose _analyze_finding is called for the     *)
(* findings of `given`, one after the other, with a provider that returns  *)
(* a JSON object each time.  `calls` logs each provider call with the      *)
(* response and what _analyze_finding made of it.                          *)
(***************************************************************************)

\* Values of the "confidence" field: absent, numbers, a numeric string, and
\* values float() rejects (a non-numeric string, null, a list).
ConfidenceValues ==
    {JMissing, JNum(90), JStr("0.9"), JStr("very sure"), JNone, JList("0.9")}

\* Values of the "suggested_severity" field.
SeverityTokens ==
    {JMissing, JNone, JStr(""), JStr("none"), JStr(" HIGH "), JStr("critical"),
     JStr("Info"), JStr("urgent"), JNum(3), JList("high")}

AnalysisResponses ==
    { Response(JBool(TRUE), c, JStr("x"), JMissing, v) :
        c \in ConfidenceValues, v \in SeverityTokens }
    \cup { \* "is_false_positive": "no", and a confidence given in percent
           Response(JStr("no"), JNum(90), JStr("x"), JMissing, JMissing),
           Response(JBool(TRUE), JNum(9000), JStr("x"), JMissing, JMissing) }

\* Two findings with different cache keys.
AnalysisPool ==
    { Finding("r1", "low", "a.py", 1, JStr("medium"), JMissing),
      Finding("r2", "critical", "b.py", 3, JStr("high"), JBool(TRUE)) }

AnalysisConfigs ==
    { ScanConfig(TRUE, "openai", "gpt-4", 70, 10, c, <<>>, NoCap) : c \in BOOLEAN }

AnalysisInit ==
    /\ config \in AnalysisConfigs
    /\ provider = EngineProvider(config, "ok")
    /\ cache = EmptyCache
    /\ given \in [1..2 -> AnalysisPool]
    /\ findings = given
    /\ pc = "loop"
    /\ queue = [i \in 1..Len(given) |-> i]
    /\ pos = 1
    /\ filtered_findings = <<>>
    /\ calls = <<>>
    /\ outcome = [i \in 1..Len(given) |-> "none"]

\* verdict = self._analyze_finding(finding, ...): the cached verdict, or the
\* verdict built from the provider's response, or None.
AnalyzeFinding ==
    /\ pc = "loop"
    /\ pos <= Len(queue)
    /\ LET i == queue[pos]
           key == GetCacheKey(findings[i])
       IN  IF CacheHit(config, cache, key)
           THEN /\ outcome' = [outcome EXCEPT ![i] = "cached"]
                /\ UNCHANGED <<cache, calls>>
           ELSE \E response \in AnalysisResponses :
                  LET r == Returned([is_dict |-> TRUE, value |-> response], 1, "json")
                      built == BuildVerdict(r)
                  IN  /\ calls' = Append(calls, [finding |-> i, key |-> key,
                                                 response |-> response,
                                                 ok |-> built.ok,
                                                 verdict |-> built.verdict])
                      /\ cache' = CacheAfter(config, cache, key, built)
                      /\ outcome' = [outcome EXCEPT
                                        ![i] = IF built.ok THEN "analyzed" ELSE "failed"]
    /\ pos' = pos + 1
    /\ UNCHANGED <<config, provider, given, findings, pc, queue, filtered_findings>>

AnalysisNext == AnalyzeFinding

AnalysisSpec == AnalysisInit /\ [][AnalysisNext]_vars

-----------------------------------------------------------------------------
(* C18 *)

\* C18: a verdict built from a response has a suggested severity only if
\* the response's suggested_severity, lower-cased and trimmed, is one of
\* critical, high, medium, low, info, and it is then that value; for any
\* other value the verdict has no suggested severity; and whether the
\* analysis fails does not depend on the suggested_severity value.
C18_SuggestedSeverityValidated ==
    \A k \in 1..Len(calls) :
        LET response == calls[k].response
            value == response.suggested_severity
            valid == /\ value.t = "str"
                     /\ LowerStrip(value) \in {"critical", "high", "medium", "low", "info"}
            without == [response EXCEPT !.suggested_severity = JMissing]
        IN  /\ calls[k].ok =>
                  calls[k].verdict.suggested_severity
                      = IF valid THEN LowerStrip(value) ELSE "unset"
            /\ calls[k].ok
                  <=> BuildVerdict(Returned([is_dict |-> TRUE, value |-> without],
                                            1, "json")).ok

\* One engine built a verdict with severity "high" from " HIGH " and a
\* verdict with no suggested severity from "none".
C18_Witness ==
    \E k, l \in 1..Len(calls) :
        /\ calls[k].ok /\ calls[l].ok
        /\ calls[k].response.suggested_severity = JStr(" HIGH ")
        /\ calls[k].verdict.suggested_severity = "high"
        /\ calls[l].response.suggested_severity = JStr("none")
        /\ calls[l].verdict.suggested_severity = "unset"

-----------------------------------------------------------------------------
(* C19 *)

\* C19: a response whose confidence is present and cannot be read as a
\* number still yields a verdict, and the verdict's confidence is 0.5.
C19_UnreadableConfidenceDefaults ==
    \A k \in 1..Len(calls) :
        LET confidence == calls[k].response.confidence
        IN  (confidence.t # "missing" /\ ~FloatOk(confidence)) =>
                /\ calls[k].ok
                /\ calls[k].verdict.confidence = 50

-----------------------------------------------------------------------------
(* C20 *)

\* C20: the list filter_false_positives returns holds input findings only,
\* each at most once, in the relative order they have in the input.
C20_ReturnedIsSubsequence ==
    pc = "returned" =>
        /\ Range(filtered_findings) \subseteq 1..Len(given)
        /\ \A k, l \in 1..Len(filtered_findings) :
              k < l => filtered_findings[k] < filtered_findings[l]

-----------------------------------------------------------------------------
(* runner.py: run_scan, from the scanner's findings to the ScanResult *)

(* The specification RunScanSpec runs one run_scan from the point where
   engine.scan() has returned `given`.  It reads the variables as follows:
   config is the ScanConfig object run_scan was called with, a record that
   has exactly the attributes the object has; pc goes from "called" through
   the engine's positions to "skipped", "returned" or "raised" and then to
   "reported"; at "reported" filtered_findings is ScanResult.findings and
   findings holds the Finding objects as the AI phase left them. *)

\* ScanConfig as its constructor and from_dict build it: the dataclass has
\* no ai_max_findings field and from_dict passes none.
ConstructedConfig(enable, prov, model, thr, batch, cacheOn, rules) ==
    [enable_ai_filter |-> enable, ai_provider |-> prov, ai_model |-> model,
     ai_confidence_threshold |-> thr, ai_batch_size |-> batch,
     ai_cache_enabled |-> cacheOn, ai_analyze_rules |-> rules]

\* The object after `config.ai_max_findings = cap` was assigned to it.
WithMaxFindings(cfg, cap) ==
    ScanConfig(cfg.enable_ai_filter, cfg.ai_provider, cfg.ai_model,
               cfg.ai_confidence_threshold, cfg.ai_batch_size,
               cfg.ai_cache_enabled, cfg.ai_analyze_rules, cap)

\* hasattr(config, "ai_max_findings")
HasMaxFindings(cfg) == "ai_max_findings" \in DOMAIN cfg

\* The configurations of the runs: the dataclass defaults for both vendors,
\* AI filtering on or off, as constructed and with the cap assigned.
RunScanConfigs ==
    LET built == { ConstructedConfig(e, pm[1], pm[2], 70, 10, TRUE, <<>>) :
                     e \in BOOLEAN,
                     pm \in {<<"openai", "gpt-4">>,
                             <<"anthropic", "claude-3-opus-20240229">>} }
    IN  built \cup { WithMaxFindings(c, m) : c \in built, m \in Caps }

\* findings = engine.scan() has returned; AIEngine(config) is constructed.
RunScanInit ==
    /\ config \in RunScanConfigs
    /\ \E env \in Environments : provider = EngineProvider(config, env)
    /\ cache = EmptyCache
    /\ given \in FindingLists
    /\ findings = given
    /\ pc = "called"
    /\ queue = <<>>
    /\ pos = 1
    /\ filtered_findings = <<>>
    /\ calls = <<>>
    /\ outcome = [i \in 1..Len(given) |-> "none"]

\* AI filtering disabled, or `if not ai_engine.provider`: "Continuing
\* without AI filtering", the findings stay as the scanner returned them.
ContinueWithoutAi ==
    /\ pc = "called"
    /\ provider.kind = "None"
    /\ pc' = "skipped"
    /\ filtered_findings' = AllPositions
    /\ UNCHANGED <<config, provider, cache, given, findings, queue, pos, calls, outcome>>

\* filter_false_positives returns its argument: no findings, or selection
\* ran and selected nothing.
FilterReturnsInput ==
    /\ pc = "called"
    /\ provider.kind # "None"
    /\ \/ findings = <<>>
       \/ HasMaxFindings(config) /\ FilterFindingsForAnalysis(findings, config) = <<>>
    /\ pc' = "returned"
    /\ filtered_findings' = AllPositions
    /\ UNCHANGED <<config, provider, cache, given, findings, queue, pos, calls, outcome>>

\* _filter_findings_for_analysis reads self.config.ai_max_findings: an
\* AttributeError on an object without the attribute, which leaves
\* filter_false_positives before any finding is analysed.
SelectionRaises ==
    /\ pc = "called"
    /\ provider.kind # "None"
    /\ findings # <<>>
    /\ ~HasMaxFindings(config)
    /\ pc' = "raised"
    /\ UNCHANGED <<config, provider, cache, given, findings, queue, pos,
                   filtered_findings, calls, outcome>>

\* Selection on an object that has the attribute.
SelectionStartsAnalysis ==
    /\ HasMaxFindings(config)
    /\ StartAnalysis

\* The rest of run_scan: `findings` is what filter_false_positives returned,
\* or the scanner's list when it was not called or raised ("Continuing with
\* unfiltered findings"); ScanResult(findings=findings).
Report ==
    /\ pc \in {"skipped", "returned", "raised"}
    /\ pc' = "reported"
    /\ filtered_findings' = IF pc = "raised" THEN AllPositions ELSE filtered_findings
    /\ UNCHANGED <<config, provider, cache, given, findings, queue, pos, calls, outcome>>

RunScanNext ==
    \/ ContinueWithoutAi
    \/ FilterReturnsInput
    \/ SelectionRaises
    \/ SelectionStartsAnalysis
    \/ UseCachedVerdict
    \/ CallProvider
    \/ Finish
    \/ Report

RunScanSpec == RunScanInit /\ [][RunScanNext]_vars

\* The counting loop of run_scan over the reported list.
\* if finding.ai_filtered: ai_filtered_count += 1; continue
AiFilteredCount(result, fs) ==
    Cardinality({ k \in 1..Len(result) : fs[result[k]].ai_filtered })

\* if finding.ai_analysis: ai_analyzed_count += 1
AiAnalyzedCount(result, fs) ==
    Cardinality({ k \in 1..Len(result) :
                    ~fs[result[k]].ai_filtered /\ fs[result[k]].has_analysis })

\* else: semgrep_only_count += 1
SemgrepOnlyCount(result, fs) ==
    Cardinality({ k \in 1..Len(result) :
                    ~fs[result[k]].ai_filtered /\ ~fs[result[k]].has_analysis })

\* The scanner findings the engine marked as false positives in this run.
EngineFiltered == { i \in 1..Len(given) : findings[i].ai_filtered }

-----------------------------------------------------------------------------
\* C21: when run_scan has reported, its filtered count is the number of
\* scanner findings the engine filtered in the run, and the analyzed, the
\* semgrep-only and the filtered count add up to the number of findings the
\* scanner produced.
C21_CountsConsistent ==
    pc = "reported" =>
        /\ AiFilteredCount(filtered_findings, findings) = Cardinality(EngineFiltered)
        /\ AiAnalyzedCount(filtered_findings, findings)
             + SemgrepOnlyCount(filtered_findings, findings)
             + AiFilteredCount(filtered_findings, findings) = Len(given)

-----------------------------------------------------------------------------
\* C22: with a ScanConfig as its constructor or from_dict builds it, no cap
\* given, filter_false_positives on a non-empty list does not fail on a
\* missing configuration value: the AI phase of the run never ends raised.
C22_ConstructedConfigRuns ==
    (~HasMaxFindings(config) /\ provider.kind # "None" /\ given # <<>>)
        => pc # "raised"

-----------------------------------------------------------------------------
\* C23: no finding in the ScanResult run_scan returns has its ai_filtered
\* flag set, also when the AI phase ended with an exception and run_scan
\* went on with the unfiltered findings.
C23_NoFilteredFindingReported ==
    pc = "reported" =>
        \A k \in 1..Len(filtered_findings) :
            ~findings[filtered_findings[k]].ai_filtered

-----------------------------------------------------------------------------
(* ai_engine.py: the order of analysis and the batch size *)

(* The specification OrderSpec runs filter_false_positives as Spec does,
   on lists of up to MaxOrdered findings that the selector includes, of
   several severities in two files, with several batch sizes. *)

MaxOrdered == 3

\* ai_batch_size values of the runs: one finding per batch, a batch
\* smaller than a file's findings, and the default.
BatchSizes == {1, 2, 10}

\* Findings of three severities in two files, each with a cache key of
\* its own.
OrderPool ==
    { Finding("r1", "critical", "a.py", 1, JStr("medium"), JMissing),
      Finding("r1", "high", "b.py", 2, JStr("medium"), JMissing),
      Finding("r1", "low", "a.py", 3, JStr("medium"), JMissing) }

OrderConfigs ==
    { ScanConfig(TRUE, "openai", "gpt-4", 70, b, TRUE, <<>>, NoCap) : b \in BatchSizes }

\* The engine after __init__, about to run filter_false_positives(given).
OrderInit ==
    /\ config \in OrderConfigs
    /\ provider = EngineProvider(config, "ok")
    /\ cache = EmptyCache
    /\ given \in UNION { [1..n -> OrderPool] : n \in 0..MaxOrdered }
    /\ findings = given
    /\ pc = "called"
    /\ queue = <<>>
    /\ pos = 1
    /\ filtered_findings = <<>>
    /\ calls = <<>>
    /\ outcome = [i \in 1..Len(given) |-> "none"]

OrderNext ==
    \/ ReturnNothingToAnalyze
    \/ StartAnalysis
    \/ UseCachedVerdict
    \/ CallProvider
    \/ Finish

OrderSpec == OrderInit /\ [][OrderNext]_vars

\* The analysis of finding i has started.
Started(i) == outcome[i] # "none"

-----------------------------------------------------------------------------
\* C24: the engine starts the analysis of the selected findings in the
\* selector's priority order: when the analysis of a selected finding has
\* started, the analysis of every selected finding of a more urgent
\* severity has started too, whatever files the two are in.
C24_AnalysisInPriorityOrder ==
    \A a \in SelectedSet : \A b \in SelectedSet :
        (SeverityRank(given[a].severity) < SeverityRank(given[b].severity)
         /\ Started(b)) => Started(a)

-----------------------------------------------------------------------------
\* C25: the batch size has no effect on the run.  The only step that reads
\* ai_batch_size is the one that fixes the order of the loop, and it fixes
\* the order an engine with batch size 1 fixes; every later step (provider
\* call, cache write, finding update, returned list) is taken from that
\* order alone.
C25_SameAsBatchSizeOne ==
    [][(pc = "called" /\ pc' = "loop") =>
          queue' = ProcessingOrder(findings,
                                   FilterFindingsForAnalysis(findings, config), 1)]_vars

\* A run with batch size 2 has returned after three provider calls for
\* three findings of one file, that is from two batches.
C25_Witness ==
    /\ pc = "returned"
    /\ config.ai_batch_size = 2
    /\ Len(queue) = 3
    /\ \A k \in 1..Len(queue) : findings[queue[k]].file_path = "a.py"
    /\ Len(calls) = 3

-----------------------------------------------------------------------------
\* The analyze invocations made for finding i.
CallsFor(i) == { n \in 1..Len(calls) : calls[n].finding = i }

\* C26: when a run with a provider has ended, every selected finding has
\* been processed once and is in one terminal state: a verdict applied from
\* the cache, a verdict applied (and cached, with caching on) after one
\* provider call, or unmodified after a failed analysis; no finding is
\* visited twice and none has more than one analyze invocation.
C26_OneTerminalStatePerFinding ==
    /\ \A i \in SelectedSet :
          /\ Occurrences(queue, i) <= 1
          /\ Cardinality(CallsFor(i)) <= 1
          /\ outcome[i] = "cached" => VerdictApplied(i) /\ CallsFor(i) = {}
          /\ outcome[i] = "analyzed" =>
                /\ Cardinality(CallsFor(i)) = 1
                /\ config.ai_cache_enabled => GetCacheKey(given[i]) \in DOMAIN cache
          /\ outcome[i] = "failed" => Unmodified(i)
    /\ (provider.kind # "None" /\ pc \in {"returned", "raised"}) =>
          \A i \in SelectedSet : outcome[i] \in {"cached", "analyzed", "failed"}

-----------------------------------------------------------------------------
(* ai_providers.py: _fix_json_escapes, character by character *)

(* The specification EscapeSpec applies _fix_json_escapes to one text.  It
   reads the variables as follows: given is the text, a sequence of
   characters; pc goes from "called" to "returned"; outcome is the text
   returned.  The group "0041" stands for four hexadecimal digits. *)

MaxText == 4

\* The characters of the texts: the backslash, u and U, a letter that makes
\* a valid escape (n), a letter that makes none (p), four hex digits.
Chars == {"\\", "u", "U", "n", "p", "0041"}

EscapeTexts == UNION { [1..n -> Chars] : n \in 0..MaxText }

\* A character of the text being rewritten, or a placeholder
\* __VALID_ESCAPE_k__ standing for the escape it replaced.
Char(c) == [placeholder |-> FALSE, text |-> <<c>>]
Placeholder(original) == [placeholder |-> TRUE, text |-> original]
IsChar(item, cs) == ~item.placeholder /\ item.text[1] \in cs

\* The text of the items from the k-th on.
From(items, k) == SubSeq(items, k, Len(items))

RECURSIVE ProtectUnicode(_)
\* re.sub(r'\\u[0-9a-fA-F]{4}', make_placeholder, content, flags=re.IGNORECASE)
ProtectUnicode(items) ==
    IF items = <<>> THEN <<>>
    ELSE IF /\ Len(items) >= 3
            /\ IsChar(items[1], {"\\"})
            /\ IsChar(items[2], {"u", "U"})
            /\ IsChar(items[3], {"0041"})
    THEN <<Placeholder(<<"\\", items[2].text[1], "0041">>)>>
         \o ProtectUnicode(From(items, 4))
    ELSE <<items[1]>> \o ProtectUnicode(Tail(items))

RECURSIVE ProtectSingle(_)
\* re.sub(r'\\(["\\/bfnrt])', make_placeholder, content)
ProtectSingle(items) ==
    IF items = <<>> THEN <<>>
    ELSE IF /\ Len(items) >= 2
            /\ IsChar(items[1], {"\\"})
            /\ IsChar(items[2], {"\\", "n"})
    THEN <<Placeholder(<<"\\", items[2].text[1]>>)>>
         \o ProtectSingle(From(items, 3))
    ELSE <<items[1]>> \o ProtectSingle(Tail(items))

RECURSIVE FixInvalid(_)
\* re.sub(r'\\(.)', fix_invalid, content): a backslash and the character
\* after it become two backslashes and that character; the character
\* after it may be the first of a placeholder, which stays whole.
FixInvalid(items) ==
    IF items = <<>> THEN <<>>
    ELSE IF Len(items) >= 2 /\ IsChar(items[1], {"\\"})
    THEN <<Char("\\"), Char("\\"), items[2]>> \o FixInvalid(From(items, 3))
    ELSE <<items[1]>> \o FixInvalid(Tail(items))

\* content.replace(placeholder, original) for every placeholder
RestoreEscapes(items) == Concat([k \in 1..Len(items) |-> items[k].text])

\* _fix_json_escapes
FixJsonEscapesChars(content) ==
    LET items == [k \in 1..Len(content) |-> Char(content[k])]
    IN  RestoreEscapes(FixInvalid(ProtectSingle(ProtectUnicode(items))))

\* The text handed to _fix_json_escapes.
EscapeInit ==
    /\ given \in EscapeTexts
    /\ pc = "called"
    /\ outcome = <<>>
    /\ config = DefaultConfig(TRUE, "openai", "gpt-4")
    /\ provider = EngineProvider(config, "ok")
    /\ cache = EmptyCache
    /\ findings = <<>>
    /\ queue = <<>>
    /\ pos = 1
    /\ filtered_findings = <<>>
    /\ calls = <<>>

\* fixed_content = _fix_json_escapes(content)
FixEscapes ==
    /\ pc = "called"
    /\ outcome' = FixJsonEscapesChars(given)
    /\ pc' = "returned"
    /\ UNCHANGED <<config, provider, cache, given, findings, queue, pos,
                   filtered_findings, calls>>

EscapeNext == FixEscapes

EscapeSpec == EscapeInit /\ [][EscapeNext]_vars

RECURSIVE JsonEscapes(_)
\* The text read as JSON reads the inside of a string, from the left: a
\* list of pieces, each a plain character, a valid escape sequence (\\, \n,
\* \u and four hex digits), or a backslash that starts an invalid escape.
JsonEscapes(text) ==
    IF text = <<>> THEN <<>>
    ELSE IF text[1] # "\\" \/ Len(text) = 1
    THEN <<[kind |-> "plain", text |-> <<text[1]>>]>> \o JsonEscapes(Tail(text))
    ELSE IF text[2] \in {"\\", "n"}
    THEN <<[kind |-> "valid", text |-> SubSeq(text, 1, 2)]>>
         \o JsonEscapes(From(text, 3))
    ELSE IF Len(text) >= 3 /\ text[2] = "u" /\ text[3] = "0041"
    THEN <<[kind |-> "valid", text |-> SubSeq(text, 1, 3)]>>
         \o JsonEscapes(From(text, 4))
    ELSE <<[kind |-> "invalid", text |-> <<"\\">>]>> \o JsonEscapes(Tail(text))

\* The text with the backslash of every invalid escape doubled and
\* everything else as it was.
InvalidEscapesDoubled(text) ==
    LET pieces == JsonEscapes(text)
    IN  Concat([k \in 1..Len(pieces) |->
                  IF pieces[k].kind = "invalid" THEN <<"\\", "\\">>
                  ELSE pieces[k].text])

\* Every escape of the text is a valid JSON escape.
AllEscapesValid(text) ==
    \A k \in 1..Len(JsonEscapes(text)) : JsonEscapes(text)[k].kind # "invalid"

-----------------------------------------------------------------------------
\* C27: escape repair changes only invalid escapes: the text returned is
\* the input with the backslash of each invalid escape doubled and every
\* valid escape sequence as it was; a text whose escapes are all valid is
\* returned unchanged.
C27_OnlyInvalidEscapesChanged ==
    pc = "returned" =>
        /\ outcome = InvalidEscapesDoubled(given)
        /\ AllEscapesValid(given) => outcome = given

-----------------------------------------------------------------------------
\* A parsed value that is a JSON object (a key-value mapping).
IsJsonObject(value) == value # <<>> /\ Head(value) = "{"

\* C28 (ParserSpec): every value _parse_json_with_fallback returns is a
\* key-value mapping; valid JSON that is no object is not returned as a
\* successful parse result.
C28_ParsedValueIsMapping ==
    pc = "returned" => IsJsonObject(outcome.value)

-----------------------------------------------------------------------------
\* A verdict as the claim describes it: is_false_positive a boolean, the
\* confidence within [0, 1].
WellFormedVerdict(v) ==
    /\ v.is_false_positive.t = "bool"
    /\ v.confidence >= 0
    /\ v.confidence <= 100

\* C29 (AnalysisSpec): every verdict the engine builds for a finding or
\* stores in the cache has a boolean is_false_positive and a confidence
\* within [0, 1], whatever the provider response carried.
C29_VerdictWellFormed ==
    /\ \A k \in 1..Len(calls) : calls[k].ok => WellFormedVerdict(calls[k].verdict)
    /\ \A key \in DOMAIN cache : WellFormedVerdict(cache[key])

-----------------------------------------------------------------------------
(* ai_engine.py: one engine over several filter_false_positives calls *)

(* The specification LifetimeSpec keeps one AIEngine and calls
   filter_false_positives on it again and again, each time with a list of
   findings of its own.  It reads the variables as Spec does, except that
   given, findings, queue, pos, filtered_findings, outcome and calls belong
   to the call in progress and start afresh with every call; config,
   provider and cache belong to the engine and last. *)

\* Two findings with different cache keys, and the second again in
\* another file (the same key).
LifetimePool ==
    { Finding("r1", "low", "a.py", 1, JStr("medium"), JMissing),
      Finding("r2", "low", "a.py", 1, JStr("low"), JBool(FALSE)),
      Finding("r2", "low", "b.py", 1, JStr("low"), JBool(FALSE)) }

LifetimeLists == UNION { [1..n -> LifetimePool] : n \in 0..MaxFindings }

LifetimeConfigs ==
    { ScanConfig(TRUE, pm[1], pm[2], 70, 10, c, <<>>, NoCap) :
        pm \in {<<"openai", "gpt-4">>, <<"anthropic", "claude-3-opus-20240229">>},
        c \in BOOLEAN }

\* The engine after __init__ (self.cache = {}), at its first call.
LifetimeInit ==
    /\ config \in LifetimeConfigs
    /\ provider = EngineProvider(config, "ok")
    /\ cache = EmptyCache
    /\ given \in LifetimeLists
    /\ findings = given
    /\ pc = "called"
    /\ queue = <<>>
    /\ pos = 1
    /\ filtered_findings = <<>>
    /\ calls = <<>>
    /\ outcome = [i \in 1..Len(given) |-> "none"]

\* The caller calls filter_false_positives on the same engine again, after
\* a call that returned or raised.
CallAgain ==
    /\ pc \in {"returned", "raised"}
    /\ \E next \in LifetimeLists :
          /\ given' = next
          /\ findings' = next
          /\ outcome' = [i \in 1..Len(next) |-> "none"]
    /\ pc' = "called"
    /\ queue' = <<>>
    /\ pos' = 1
    /\ filtered_findings' = <<>>
    /\ calls' = <<>>
    /\ UNCHANGED <<config, provider, cache>>

LifetimeNext ==
    \/ ReturnNothingToAnalyze
    \/ StartAnalysis
    \/ UseCachedVerdict
    \/ CallProvider
    \/ Finish
    \/ CallAgain

LifetimeSpec == LifetimeInit /\ [][LifetimeNext]_vars

-----------------------------------------------------------------------------
\* C30: the cache of an engine only grows and every entry is written once:
\* a key that maps to a verdict maps to that verdict after every step, over
\* any number of filter_false_positives calls; with caching off the cache
\* stays empty.
C30_CacheWriteOnce ==
    [][/\ \A key \in DOMAIN cache : key \in DOMAIN cache' /\ cache'[key] = cache[key]
       /\ ~config.ai_cache_enabled => cache' = EmptyCache]_vars

\* A later call has returned after taking a verdict from the cache without
\* any provider call of its own: the entry was written by an earlier call.
C30_Witness ==
    /\ pc = "returned"
    /\ calls = <<>>
    /\ \E i \in 1..Len(given) : outcome[i] = "cached"

====
